---------------------------- MODULE Spec2Model ----------------------------
(***************************************************************************)
(* Model of the tile-based backward rasterizer kernel                      *)
(* (taichi_splatting/rasterizer/backward.py) and of the ParameterClass     *)
(* optimizer wrapper (taichi_splatting/scripts/parameter_class.py).        *)
(*                                                                         *)
(* Floating point values are modelled as exact rationals <<num, den>>.     *)
(* One tile (one block of TileArea tasks, one task per pixel) is modelled; *)
(* its tasks interleave freely between block barriers.                     *)
(***************************************************************************)
EXTENDS Integers, Sequences, FiniteSets, TLC

(***************************************************************************)
(* Bounds of the model.                                                    *)
(***************************************************************************)
\* tasks in one block: tile_size * tile_size in the source
TileArea == 2
\* largest number of primitives in the tile's range
MaxCount == 4
\* largest start_offset of the tile's range in overlap_to_point
MaxStart == 1
\* ParameterClass: largest number of rows of the optimized tensor
MaxRows == 3
\* ParameterClass: largest number of optimizer steps taken
MaxSteps == 2

(***************************************************************************)
(* Exact rational arithmetic.                                              *)
(***************************************************************************)
Abs(n) == IF n < 0 THEN -n ELSE n

Min(a, b) == IF a < b THEN a ELSE b

Max(a, b) == IF a > b THEN a ELSE b

RECURSIVE Gcd(_, _)
Gcd(a, b) == IF b = 0 THEN a ELSE Gcd(b, a % b)

RNorm(n, d) ==
  LET s == IF d < 0 THEN -1 ELSE 1
      g == Gcd(Abs(n), Abs(d))
  IN  IF n = 0 THEN <<0, 1>> ELSE <<(s * n) \div g, (s * d) \div g>>

R0 == <<0, 1>>

R1 == <<1, 1>>

RAdd(a, b) ==
  LET g == Gcd(a[2], b[2])
  IN  RNorm(a[1] * (b[2] \div g) + b[1] * (a[2] \div g), (a[2] \div g) * b[2])

RNeg(a) == <<-a[1], a[2]>>

RSub(a, b) == RAdd(a, RNeg(b))

RMul(a, b) ==
  LET g1 == Gcd(Abs(a[1]), b[2])
      g2 == Gcd(Abs(b[1]), a[2])
  IN  IF a[1] = 0 \/ b[1] = 0 THEN R0
      ELSE RNorm((a[1] \div g1) * (b[1] \div g2), (a[2] \div g2) * (b[2] \div g1))

RInv(a) == IF a[1] < 0 THEN <<-a[2], -a[1]>> ELSE <<a[2], a[1]>>

RDiv(a, b) == RMul(a, RInv(b))

RLt(a, b) == a[1] * b[2] < b[1] * a[2]

RMin(a, b) == IF RLt(a, b) THEN a ELSE b

(***************************************************************************)
(* Feature vectors (three channels, as w_i = ti.math.vec3 fixes).          *)
(***************************************************************************)
Channels == 1..3

V0 == [c \in Channels |-> R0]

VAdd(u, v) == [c \in Channels |-> RAdd(u[c], v[c])]

VSub(u, v) == [c \in Channels |-> RSub(u[c], v[c])]

VMul(u, v) == [c \in Channels |-> RMul(u[c], v[c])]

VScale(r, v) == [c \in Channels |-> RMul(r, v[c])]

VSum(v) == RAdd(v[1], RAdd(v[2], v[3]))

VInt(a, b, c) == <<(<<a, 1>>), (<<b, 1>>), (<<c, 1>>)>>

(***************************************************************************)
(* Config (backward.py).                                                   *)
(***************************************************************************)
clamp_max_alpha == <<99, 100>>

alpha_threshold == <<1, 255>>

saturate_threshold == <<9999, 10000>>

(***************************************************************************)
(* Kernel inputs.                                                          *)
(***************************************************************************)
Tasks == 0..(TileArea - 1)

\* number of entries of overlap_to_point / of primitives
NumPoints == 2 * ((MaxStart + MaxCount + 2) \div 2)

PointIds == 0..(NumPoints - 1)

\* (K) the sorted list of primitive references: a fixed permutation that
\* differs from the identity, so a list index is never a primitive id
OverlapToPoint(i) == IF i % 2 = 0 THEN i + 1 ELSE i - 1

\* (M, F) the features of the primitives
PointFeature(p) ==
  CASE p = 0 -> VInt(0, 1, 0)
    [] p = 1 -> VInt(1, 0, 0)
    [] p = 2 -> VInt(0, 0, 1)
    [] p = 3 -> VInt(1, 1, 0)
    [] OTHER -> VInt(0, 1, 1)

\* (H, W, F) the incoming gradient of each pixel of the tile
GradImageFeature(t) == IF t = 0 THEN VInt(1, 1, 1) ELSE VInt(1, 0, 2)

\* the opacities a primitive may have
Opacities == {<<1, 2>>, R1}

\* the pixels a primitive's footprint reaches with density 1: every pixel
\* of the tile, or the tile's first pixel only
Footprints == {"all", "first"}

VARIABLES
  point_alpha,          \* points[p]: the opacity of primitive p
  footprint,            \* points[p]: the footprint (mean and conic) of p
  tile_overlap_ranges,  \* <<start_offset, end_offset>> of the tile
  image_feature,        \* saved from forward, per pixel
  image_alpha,
  image_last_valid,
  grad_points,          \* output gradients, per primitive
  grad_point_features,
  tile_point,           \* shared memory, per slot: the primitive held
  tile_feature,
  pc,                   \* per task: position in the kernel
  last_point_idx,       \* per task: locals of the kernel
  point_group_id,
  in_group_idx,
  T_i,
  w_i,
  syncs,                \* per task: arrivals at the block barrier
  ev,                   \* the last iteration of an inner loop that ran
  pstate,               \* ParameterClass: the object
  presult               \* ParameterClass: outcome of the last call

kvars == <<point_alpha, footprint, tile_overlap_ranges, image_feature,
           image_alpha, image_last_valid, grad_points, grad_point_features,
           tile_point, tile_feature, pc, last_point_idx, point_group_id,
           in_group_idx, T_i, w_i, syncs, ev>>

pvars == <<pstate, presult>>

vars == <<kvars, pvars>>

start_offset == tile_overlap_ranges[1]

end_offset == tile_overlap_ranges[2]

tile_point_count == end_offset - start_offset

(***************************************************************************)
(* conic_pdf_with_grad: the density of primitive p at the centre of the    *)
(* pixel of task t, and its derivative with respect to the shape.          *)
(***************************************************************************)
GaussianAlpha(fp, t) == IF fp = "all" \/ t = 0 THEN R1 ELSE <<1, 256>>

DpDshape(fp, t) == IF fp = "all" \/ t = 0 THEN <<1, 2>> ELSE <<1, 512>>

(***************************************************************************)
(* The forward compositor, per pixel: walks the tile's list front to back  *)
(* from T = 1, C = 0 and records C, 1 - T and last_valid, the list index   *)
(* at which the walk terminated: end_offset when the list is exhausted,    *)
(* the index after the saturating primitive when the walk stops early.     *)
(***************************************************************************)
ListIdx == 0..(NumPoints - 1)

RawAlphaAt(pa, fp, t, i) ==
  RMul(pa[OverlapToPoint(i)], GaussianAlpha(fp[OverlapToPoint(i)], t))

RECURSIVE FwdWalk(_, _, _, _, _, _)
FwdWalk(pa, fp, t, i, eo, acc) ==
  IF i >= eo THEN [acc EXCEPT !.last = eo]
  ELSE LET raw == RawAlphaAt(pa, fp, t, i)
       IN  IF RLt(raw, alpha_threshold) THEN FwdWalk(pa, fp, t, i + 1, eo, acc)
           ELSE LET a == RMin(raw, clamp_max_alpha)
                    f == PointFeature(OverlapToPoint(i))
                    T2 == RMul(acc.T, RSub(R1, a))
                    acc2 == [T |-> T2,
                             C |-> VAdd(acc.C, VScale(RMul(a, acc.T), f)),
                             last |-> i + 1,
                             Tb |-> [acc.Tb EXCEPT ![i] = acc.T],
                             al |-> [acc.al EXCEPT ![i] = a],
                             comp |-> acc.comp \cup {i}]
                IN  IF RLt(T2, RSub(R1, saturate_threshold)) THEN acc2
                    ELSE FwdWalk(pa, fp, t, i + 1, eo, acc2)

Forward(pa, fp, tr, t) ==
  FwdWalk(pa, fp, t, tr[1], tr[2],
          [T |-> R1, C |-> V0, last |-> tr[1],
           Tb |-> [j \in ListIdx |-> R0], al |-> [j \in ListIdx |-> R0],
           comp |-> {}])

(***************************************************************************)
(* _backward_kernel: the index arithmetic of the paged walk.               *)
(***************************************************************************)
NumPointGroups_floor(count) == count \div TileArea

NumPointGroups(count) == (count + (TileArea - 1)) \div TileArea

GroupOffsetBase(g) == g * TileArea

BlockEndIdx(g) == end_offset - GroupOffsetBase(g)

BlockStartIdx(g) == Max(BlockEndIdx(g) - TileArea, 0)

LoadIndex(g, thread_id) == BlockEndIdx(g) - thread_id - 1

PointGroupSize(g) == Min(TileArea, tile_point_count - GroupOffsetBase(g))

PointIndex(g, k) == end_offset - (GroupOffsetBase(g) + k) - 1

SkipLastValid_strict(point_index, last) == point_index > last

SkipLastValid(point_index, last) == point_index >= last

(***************************************************************************)
(* _backward_kernel: the arithmetic of one blended primitive.              *)
(***************************************************************************)
BelowThreshold(alpha) == RLt(alpha, alpha_threshold)

ClampAlpha(alpha) == RMin(alpha, clamp_max_alpha)

UnDivide(T, alpha) == RDiv(T, RSub(R1, alpha))

AlphaGradFromFeature(feature, T, w, alpha, grad) ==
  VMul(VSub(VScale(T, feature), VScale(RInv(RSub(R1, alpha)), w)), grad)

NextW(w, feature, alpha, T) == VAdd(w, VScale(RMul(alpha, T), feature))

PointGradFeature_noT(alpha, T, grad) == VScale(alpha, grad)

PointGradFeature(alpha, T, grad) == VScale(RMul(alpha, T), grad)

\* alpha_grad * pack(point_alpha * dp_dmean, point_alpha * dp_dconic,
\* gaussian_alpha): the shape part and the opacity part
PointGrad(alpha_grad, pa, dp, gaussian_alpha) ==
  <<RMul(alpha_grad, RMul(pa, dp)), RMul(alpha_grad, gaussian_alpha)>>

PAdd(u, v) == <<RAdd(u[1], v[1]), RAdd(u[2], v[2])>>

P0 == <<R0, R0>>

(***************************************************************************)
(* Initial state of a launch: the buffers as the forward pass left them,   *)
(* zeroed gradient buffers, every task at the top of the kernel.           *)
(***************************************************************************)
NoEv ==
  [kind |-> "none", task |-> 0, index |-> 0, page |-> 0, slot |-> 0,
   heldPoint |-> 0, heldFeature |-> 0, alpha |-> R0,
   Tpre |-> R0, Tpost |-> R0, wpre |-> V0, wpost |-> V0,
   alpha_grad |-> R0, dFeature |-> V0, dPoint |-> P0]

KInit ==
  \E s \in 0..MaxStart, count \in 0..MaxCount :
    \E oa \in [s..(s + count - 1) -> Opacities],
       of \in [s..(s + count - 1) -> Footprints] :
      LET inList(p) == OverlapToPoint(p) \in s..(s + count - 1)
          pa == [p \in PointIds |->
                   IF inList(p) THEN oa[OverlapToPoint(p)] ELSE R1]
          fp == [p \in PointIds |->
                   IF inList(p) THEN of[OverlapToPoint(p)] ELSE "all"]
          tr == <<s, s + count>>
      IN  /\ point_alpha = pa
          /\ footprint = fp
          /\ tile_overlap_ranges = tr
          /\ image_feature = [t \in Tasks |-> Forward(pa, fp, tr, t).C]
          /\ image_alpha = [t \in Tasks |-> RSub(R1, Forward(pa, fp, tr, t).T)]
          /\ image_last_valid = [t \in Tasks |-> Forward(pa, fp, tr, t).last]
  /\ grad_points = [p \in PointIds |-> P0]
  /\ grad_point_features = [p \in PointIds |-> V0]
  /\ tile_point = [k \in Tasks |-> -1]
  /\ tile_feature = [k \in Tasks |-> -1]
  /\ pc = [t \in Tasks |-> "start"]
  /\ last_point_idx = [t \in Tasks |-> 0]
  /\ point_group_id = [t \in Tasks |-> 0]
  /\ in_group_idx = [t \in Tasks |-> 0]
  /\ T_i = [t \in Tasks |-> R1]
  /\ w_i = [t \in Tasks |-> V0]
  /\ syncs = [t \in Tasks |-> 0]
  /\ ev = NoEv

(***************************************************************************)
(* _backward_kernel, one task (one pixel of the tile).                     *)
(***************************************************************************)
\* lines 57-87: the locals, read from the state the forward pass saved
Start(t) ==
  /\ pc[t] = "start"
  /\ last_point_idx' = [last_point_idx EXCEPT ![t] = image_last_valid[t]]
  /\ T_i' = [T_i EXCEPT ![t] = RSub(R1, image_alpha[t])]
  /\ w_i' = [w_i EXCEPT ![t] = V0]
  /\ point_group_id' = [point_group_id EXCEPT ![t] = 0]
  /\ pc' = [pc EXCEPT ![t] =
              IF 0 < NumPointGroups(tile_point_count) THEN "load" ELSE "store"]
  /\ UNCHANGED <<point_alpha, footprint, tile_overlap_ranges, image_feature,
                 image_alpha, image_last_valid, grad_points,
                 grad_point_features, tile_point, tile_feature, in_group_idx,
                 syncs, ev, pvars>>

\* lines 91-100: the task stores the record of its entry of the page in
\* its slot of tile_point; a task with no entry to load goes to the barrier
Load(t) ==
  /\ pc[t] = "load"
  /\ LET g == point_group_id[t]
         load_index == LoadIndex(g, t)
     IN  IF load_index >= BlockStartIdx(g)
         THEN /\ tile_point' = [tile_point EXCEPT ![t] = OverlapToPoint(load_index)]
              /\ pc' = [pc EXCEPT ![t] = "load_feature"]
              /\ UNCHANGED syncs
         ELSE /\ pc' = [pc EXCEPT ![t] = "sync"]
              /\ syncs' = [syncs EXCEPT ![t] = @ + 1]
              /\ UNCHANGED tile_point
  /\ UNCHANGED <<point_alpha, footprint, tile_overlap_ranges, image_feature,
                 image_alpha, image_last_valid, grad_points,
                 grad_point_features, tile_feature, last_point_idx,
                 point_group_id, in_group_idx, T_i, w_i, ev, pvars>>

\* line 101: the task stores the feature of its entry in its slot of
\* tile_feature and goes to the barrier
LoadFeature(t) ==
  /\ pc[t] = "load_feature"
  /\ tile_feature' =
       [tile_feature EXCEPT
          ![t] = OverlapToPoint(LoadIndex(point_group_id[t], t))]
  /\ pc' = [pc EXCEPT ![t] = "sync"]
  /\ syncs' = [syncs EXCEPT ![t] = @ + 1]
  /\ UNCHANGED <<point_alpha, footprint, tile_overlap_ranges, image_feature,
                 image_alpha, image_last_valid, grad_points,
                 grad_point_features, tile_point, last_point_idx,
                 point_group_id, in_group_idx, T_i, w_i, ev, pvars>>

\* line 103: ti.simt.block.sync() releases the block once every task of it
\* has arrived
BlockSync ==
  /\ \A t \in Tasks : pc[t] = "sync"
  /\ pc' = [t \in Tasks |-> "consume"]
  /\ in_group_idx' = [t \in Tasks |-> 0]
  /\ UNCHANGED <<point_alpha, footprint, tile_overlap_ranges, image_feature,
                 image_alpha, image_last_valid, grad_points,
                 grad_point_features, tile_point, tile_feature,
                 last_point_idx, point_group_id, T_i, w_i, syncs, ev, pvars>>

\* where the task goes after iteration k of the inner loop of page g
AfterIteration(t, g, k) ==
  /\ in_group_idx' = [in_group_idx EXCEPT ![t] = k + 1]
  /\ IF k + 1 < PointGroupSize(g)
     THEN UNCHANGED <<pc, point_group_id>>
     ELSE /\ point_group_id' = [point_group_id EXCEPT ![t] = g + 1]
          /\ pc' = [pc EXCEPT ![t] =
                      IF g + 1 < NumPointGroups(tile_point_count)
                      THEN "load" ELSE "store"]

\* lines 115-150: the body of the inner loop for a primitive the test of
\* last_point_idx lets through, the slot read holding the record of
\* primitive hp and the feature of primitive hf
Blend(t, hp, hf, base) ==
  LET pa == point_alpha[hp]
      feature == PointFeature(hf)
      gaussian_alpha == GaussianAlpha(footprint[hp], t)
      dp == DpDshape(footprint[hp], t)
      raw == RMul(pa, gaussian_alpha)
      read == [base EXCEPT !.heldPoint = hp, !.heldFeature = hf, !.alpha = raw]
  IN  IF BelowThreshold(raw)
      THEN [read EXCEPT !.kind = "skip_alpha"]
      ELSE LET alpha == ClampAlpha(raw)
               T == UnDivide(base.Tpre, alpha)
               grad == GradImageFeature(t)
               alpha_grad ==
                 VSum(AlphaGradFromFeature(feature, T, base.wpre, alpha, grad))
           IN  [read EXCEPT !.kind = "blend", !.alpha = alpha, !.Tpost = T,
                            !.wpost = NextW(base.wpre, feature, alpha, T),
                            !.alpha_grad = alpha_grad,
                            !.dFeature = PointGradFeature(alpha, T, grad),
                            !.dPoint = PointGrad(alpha_grad, pa, dp, gaussian_alpha)]

\* lines 108-150: one iteration of the inner loop
Iteration(t, hp, hf) ==
  LET g == point_group_id[t]
      k == in_group_idx[t]
      point_index == PointIndex(g, k)
      base == [NoEv EXCEPT !.task = t, !.index = point_index, !.page = g,
                           !.slot = k, !.Tpre = T_i[t], !.Tpost = T_i[t],
                           !.wpre = w_i[t], !.wpost = w_i[t]]
  IN  IF SkipLastValid(point_index, last_point_idx[t])
      THEN [base EXCEPT !.kind = "skip_last_valid"]
      ELSE Blend(t, hp, hf, base)

\* lines 66-67, 115-116: what a read of a shared slot yields; a slot never
\* written holds anything
Held(slot) == IF slot = -1 THEN PointIds ELSE {slot}

\* lines 108-150: the task runs one iteration of its inner loop on what
\* its slot holds now; the two += on the gradient buffers are atomic adds
Consume(t) ==
  /\ pc[t] = "consume"
  /\ in_group_idx[t] < PointGroupSize(point_group_id[t])
  /\ AfterIteration(t, point_group_id[t], in_group_idx[t])
  /\ \E hp \in Held(tile_point[in_group_idx[t]]),
        hf \in Held(tile_feature[in_group_idx[t]]) :
       /\ ev' = Iteration(t, hp, hf)
       /\ IF ev'.kind = "blend"
          THEN /\ T_i' = [T_i EXCEPT ![t] = ev'.Tpost]
               /\ w_i' = [w_i EXCEPT ![t] = ev'.wpost]
               /\ grad_point_features' =
                    [grad_point_features EXCEPT
                       ![OverlapToPoint(ev'.index)] = VAdd(@, ev'.dFeature)]
               /\ grad_points' =
                    [grad_points EXCEPT
                       ![OverlapToPoint(ev'.index)] = PAdd(@, ev'.dPoint)]
          ELSE UNCHANGED <<T_i, w_i, grad_points, grad_point_features>>
  /\ UNCHANGED <<point_alpha, footprint, tile_overlap_ranges, image_feature,
                 image_alpha, image_last_valid, tile_point, tile_feature,
                 last_point_idx, syncs, pvars>>

\* lines 155-159: the task writes its pixel of the image buffers
Store(t) ==
  /\ pc[t] = "store"
  /\ image_feature' = [image_feature EXCEPT ![t] = V0]
  /\ image_alpha' = [image_alpha EXCEPT ![t] = RSub(R1, T_i[t])]
  /\ image_last_valid' = [image_last_valid EXCEPT ![t] = last_point_idx[t]]
  /\ pc' = [pc EXCEPT ![t] = "done"]
  /\ UNCHANGED <<point_alpha, footprint, tile_overlap_ranges, grad_points,
                 grad_point_features, tile_point, tile_feature,
                 last_point_idx, point_group_id, in_group_idx, T_i, w_i,
                 syncs, ev, pvars>>

\* no ParameterClass is in play during a kernel launch
PIdle ==
  /\ pstate = [rows |-> <<>>, has_state |-> FALSE,
               exp_avg |-> <<>>, exp_avg_sq |-> <<>>, steps |-> 0]
  /\ presult = [op |-> "none", arg |-> <<>>, outcome |-> "none"]

Init == KInit /\ PIdle

Next ==
  \/ \E t \in Tasks : Start(t)
  \/ \E t \in Tasks : Load(t)
  \/ \E t \in Tasks : LoadFeature(t)
  \/ BlockSync
  \/ \E t \in Tasks : Consume(t)
  \/ \E t \in Tasks : Store(t)

Spec == Init /\ [][Next]_vars

AllDone == \A t \in Tasks : pc[t] = "done"

(***************************************************************************)
(* ParameterClass (parameter_class.py): one optimized tensor of rows, each *)
(* row named by an id, and the Adam state of its parameter.                *)
(***************************************************************************)
\* the gradients an optimizer step may see
Grads == {1, 2}

RowSeqs(n) == [i \in 1..n |-> i]

Zeros(n) == [i \in 1..n |-> 0]

\* the rows of xs at the positions of idx, in order
RECURSIVE Select(_, _, _)
Select(xs, idx, i) ==
  IF i > Len(xs) THEN <<>>
  ELSE (IF i \in idx THEN <<xs[i]>> ELSE <<>>) \o Select(xs, idx, i + 1)

\* copy(d) with copy bound by "import copy": a module is not callable
replace_dict(groups) == IF groups = 0 THEN "ok" ELSE "TypeError"

\* updated_parameters: as_parameters, then replace_dict for every group
updated_parameters(groups) == replace_dict(groups)

\* the two functions updated_state is called with: lambda x: torch.cat([x,
\* x.new_zeros(n)]) in append and lambda x: x[idx] in __index__
Apply(f, x) ==
  IF f.op = "cat" THEN x \o Zeros(f.n) ELSE Select(x, f.idx, 1)

\* modify_state: f on exp_avg and exp_avg_sq, the other entries ("step") as
\* they are
modify_state(state, f) ==
  [state EXCEPT !.exp_avg = Apply(f, @), !.exp_avg_sq = Apply(f, @)]

\* updated_state: no entry when the optimizer holds no state of the parameter
updated_state(st, f) == IF st.has_state THEN modify_state(st, f) ELSE st

\* the optimizer of a ParameterClass has one group per optimized key
ParamGroups == 1

PInit ==
  /\ \E n \in 1..MaxRows :
       pstate = [rows |-> RowSeqs(n), has_state |-> FALSE,
                 exp_avg |-> Zeros(n), exp_avg_sq |-> Zeros(n), steps |-> 0]
  /\ presult = [op |-> "none", arg |-> <<>>, outcome |-> "none"]

\* the launch buffers are not in play while a ParameterClass is used
KIdle ==
  /\ point_alpha = [p \in PointIds |-> R1]
  /\ footprint = [p \in PointIds |-> "all"]
  /\ tile_overlap_ranges = <<0, 0>>
  /\ image_feature = [t \in Tasks |-> V0]
  /\ image_alpha = [t \in Tasks |-> R0]
  /\ image_last_valid = [t \in Tasks |-> 0]
  /\ grad_points = [p \in PointIds |-> P0]
  /\ grad_point_features = [p \in PointIds |-> V0]
  /\ tile_point = [k \in Tasks |-> -1]
  /\ tile_feature = [k \in Tasks |-> -1]
  /\ pc = [t \in Tasks |-> "done"]
  /\ last_point_idx = [t \in Tasks |-> 0]
  /\ point_group_id = [t \in Tasks |-> 0]
  /\ in_group_idx = [t \in Tasks |-> 0]
  /\ T_i = [t \in Tasks |-> R1]
  /\ w_i = [t \in Tasks |-> V0]
  /\ syncs = [t \in Tasks |-> 0]
  /\ ev = NoEv

\* step: Adam creates the state of the parameter on its first step and
\* moves both moments of every row
PStep ==
  /\ pstate.steps < MaxSteps
  /\ \E g \in Grads :
       pstate' = [pstate EXCEPT
                    !.has_state = TRUE,
                    !.steps = @ + 1,
                    !.exp_avg = [i \in 1..Len(pstate.rows) |->
                                   @[i] + g * pstate.rows[i]],
                    !.exp_avg_sq = [i \in 1..Len(pstate.rows) |->
                                      @[i] + g * g * pstate.rows[i]]]
  /\ presult' = [op |-> "step", arg |-> <<>>, outcome |-> "ok"]
  /\ UNCHANGED kvars

\* append(tensors), tensors of n rows
PAppend ==
  /\ \E n \in 1..2 :
       LET cat == [op |-> "cat", n |-> n]
           fresh == [i \in 1..n |-> MaxRows + i]
       IN  IF updated_parameters(ParamGroups) = "ok"
           THEN /\ pstate' = [updated_state(pstate, cat) EXCEPT
                                !.rows = @ \o fresh]
                /\ presult' = [op |-> "append", arg |-> <<n>>, outcome |-> "ok"]
           ELSE /\ pstate' = pstate
                /\ presult' = [op |-> "append", arg |-> <<n>>,
                               outcome |-> updated_parameters(ParamGroups)]
  /\ UNCHANGED kvars

\* __index__(idx), idx the positions of the rows to keep
PIndex ==
  /\ \E idx \in SUBSET (1..Len(pstate.rows)) :
       LET sel == [op |-> "select", idx |-> idx]
       IN  IF updated_parameters(ParamGroups) = "ok"
           THEN /\ pstate' = [updated_state(pstate, sel) EXCEPT
                                !.rows = Select(@, idx, 1)]
                /\ presult' = [op |-> "index", arg |-> Select(pstate.rows, idx, 1),
                               outcome |-> "ok"]
           ELSE /\ pstate' = pstate
                /\ presult' = [op |-> "index", arg |-> Select(pstate.rows, idx, 1),
                               outcome |-> updated_parameters(ParamGroups)]
  /\ UNCHANGED kvars

PNext == PStep \/ PAppend \/ PIndex

InitParam == PInit /\ KIdle

SpecParam == InitParam /\ [][PNext]_vars

(***************************************************************************)
(* What the forward pass did at the pixel of task t, and the gradient      *)
(* contributions that follow from it.                                      *)
(***************************************************************************)
Fwd(t) == Forward(point_alpha, footprint, tile_overlap_ranges, t)

TrueRawAlpha(t, i) == RawAlphaAt(point_alpha, footprint, t, i)

\* sum of feature_j * a_j * T_j over the primitives j behind i that the
\* forward walk composited
RECURSIVE SuffixFrom(_, _)
SuffixFrom(t, j) ==
  IF j >= end_offset THEN V0
  ELSE LET rest == SuffixFrom(t, j + 1)
           f == Fwd(t)
       IN  IF j \in f.comp
           THEN VAdd(rest, VScale(RMul(f.al[j], f.Tb[j]),
                                  PointFeature(OverlapToPoint(j))))
           ELSE rest

SuffixW(t, i) == SuffixFrom(t, i + 1)

\* (feature_i * T_i - w / (1 - a_i)) dotted with the pixel gradient
RefAlphaGrad(t, i) ==
  LET f == Fwd(t)
  IN  VSum(VMul(VSub(VScale(f.Tb[i], PointFeature(OverlapToPoint(i))),
                     VScale(RInv(RSub(R1, f.al[i])), SuffixW(t, i))),
                GradImageFeature(t)))

RefFeatureContribution(t, i) ==
  IF i \in Fwd(t).comp
  THEN VScale(RMul(Fwd(t).al[i], Fwd(t).Tb[i]), GradImageFeature(t))
  ELSE V0

RefPointContribution(t, i) ==
  IF i \in Fwd(t).comp
  THEN LET p == OverlapToPoint(i)
       IN  <<RMul(RefAlphaGrad(t, i),
                  RMul(point_alpha[p], DpDshape(footprint[p], t))),
             RMul(RefAlphaGrad(t, i), GaussianAlpha(footprint[p], t))>>
  ELSE P0

RECURSIVE SumFeature(_, _)
SumFeature(i, n) ==
  IF n = 0 THEN V0
  ELSE VAdd(SumFeature(i, n - 1), RefFeatureContribution(n - 1, i))

RECURSIVE SumPoint(_, _)
SumPoint(i, n) ==
  IF n = 0 THEN P0
  ELSE PAdd(SumPoint(i, n - 1), RefPointContribution(n - 1, i))

InTile(i) == start_offset <= i /\ i < end_offset

CeilDiv(a, b) == IF a % b = 0 THEN a \div b ELSE (a \div b) + 1

\* task t runs one iteration of its inner loop in this step
Iterates(t) == pc[t] = "consume" /\ in_group_idx'[t] # in_group_idx[t]

CurrentIndex(t) == PointIndex(point_group_id[t], in_group_idx[t])

\* some task of the block can take a step: it is not at the barrier, or
\* the whole block is
CanStep ==
  \/ \E t \in Tasks : pc[t] \in {"start", "load", "load_feature", "store"}
  \/ \E t \in Tasks : /\ pc[t] = "consume"
                      /\ in_group_idx[t] < PointGroupSize(point_group_id[t])
  \/ \A t \in Tasks : pc[t] = "sync"

\* how far task t is in the kernel
Rank(t) ==
  LET page == point_group_id[t] * (TileArea + 3)
  IN  CASE pc[t] = "start" -> 0
        [] pc[t] = "load" -> 1 + page
        [] pc[t] = "load_feature" -> 2 + page
        [] pc[t] = "sync" -> 3 + page
        [] pc[t] = "consume" -> 4 + page + in_group_idx[t]
        [] pc[t] = "store" -> 1 + page
        [] pc[t] = "done" -> 2 + page

RECURSIVE Progress(_)
Progress(n) == IF n = 0 THEN 0 ELSE Progress(n - 1) + Rank(n - 1)

(***************************************************************************)
(* Claims.                                                                 *)
(***************************************************************************)

\* C1: whenever a task reads shared slot k while consuming page p, the slot
\* holds the record and the feature of the primitive
\* overlap_to_point[end_offset - 1 - (p * tile_area + k)], the entry of page
\* p, and never an entry of another page.
C1_SlotHoldsEntryOfPage ==
  ev.kind \in {"skip_alpha", "blend"} =>
    /\ ev.heldPoint = OverlapToPoint(end_offset - 1 - (ev.page * TileArea + ev.slot))
    /\ ev.heldFeature = OverlapToPoint(end_offset - 1 - (ev.page * TileArea + ev.slot))

\* C2: after the un-divide at a contributing primitive i the backward T_i is
\* the forward transmittance just before i was composited, the alpha used
\* is the forward alpha, and T_i is 1 once the walk is over.
C2_UnDivideRestoresForwardT ==
  /\ ev.kind = "blend" =>
       /\ ev.index \in Fwd(ev.task).comp
       /\ ev.Tpost = Fwd(ev.task).Tb[ev.index]
       /\ ev.alpha = Fwd(ev.task).al[ev.index]
  /\ \A t \in Tasks : pc[t] \in {"store", "done"} => T_i[t] = R1

C4_Scene ==
  /\ start_offset = 0 /\ end_offset = 2
  /\ \A i \in {0, 1} : point_alpha[OverlapToPoint(i)] = R1
                       /\ footprint[OverlapToPoint(i)] = "first"
  /\ PointFeature(OverlapToPoint(0)) = VInt(1, 0, 0)
  /\ PointFeature(OverlapToPoint(1)) = VInt(0, 1, 0)
  /\ GradImageFeature(0) = VInt(1, 1, 1)

\* C4 (as stated): the rendered feature is [1,0,0], the farther primitive
\* gets a zero feature gradient and the nearer one [1,1,1].
C4_OpaqueOccludes ==
  (C4_Scene /\ AllDone) =>
    /\ Fwd(0).C = VInt(1, 0, 0)
    /\ grad_point_features[OverlapToPoint(1)] = V0
    /\ grad_point_features[OverlapToPoint(0)] = VInt(1, 1, 1)

\* C4 (amended): both alphas are clamped to 0.99, so the rendered feature is
\* [0.99, 0.0099, 0], the farther primitive gets the feature gradient
\* 0.0099 * [1,1,1] (alpha 0.99 times transmittance 0.01) and the nearer
\* one 0.99 * [1,1,1] (alpha 0.99 times transmittance 1).
C4_ClampedOpaque ==
  C4_Scene =>
    /\ Fwd(0).C = <<(<<99, 100>>), (<<99, 10000>>), R0>>
    /\ AllDone =>
         /\ grad_point_features[OverlapToPoint(1)] =
              VScale(<<99, 10000>>, VInt(1, 1, 1))
         /\ grad_point_features[OverlapToPoint(0)] =
              VScale(<<99, 100>>, VInt(1, 1, 1))

C4_Witness ==
  /\ C4_Scene /\ AllDone
  /\ grad_point_features[OverlapToPoint(1)] # V0

\* C5: after the kernel, each primitive's gradient entries are the initial
\* (zero) value plus the contributions of all tasks that processed it, the
\* same whatever the interleaving.
C5_GradientsAreTheSum ==
  AllDone =>
    \A i \in ListIdx :
      /\ grad_point_features[OverlapToPoint(i)] =
           (IF InTile(i) THEN SumFeature(i, TileArea) ELSE V0)
      /\ grad_points[OverlapToPoint(i)] =
           (IF InTile(i) THEN SumPoint(i, TileArea) ELSE P0)

\* C6: a pixel adds nothing to the gradients of a primitive whose raw alpha
\* at the pixel is below alpha_threshold, and leaves T_i and w unchanged.
C6_BelowThresholdIsSkipped ==
  [][\A t \in Tasks : Iterates(t) =>
       LET i == CurrentIndex(t)
       IN  RLt(TrueRawAlpha(t, i), alpha_threshold) =>
             /\ grad_points'[OverlapToPoint(i)] = grad_points[OverlapToPoint(i)]
             /\ grad_point_features'[OverlapToPoint(i)] =
                  grad_point_features[OverlapToPoint(i)]
             /\ T_i'[t] = T_i[t] /\ w_i'[t] = w_i[t]]_vars

\* C8: when the alpha gradient of a contributing primitive i is computed, w
\* is the sum of feature_j * a_j * T_j over the contributing primitives j
\* behind i, the alpha gradient is the channel sum of
\* (feature_i * T_i - w / (1 - a_i)) * gradient, and w is updated after.
C8_SuffixSumAndAlphaGrad ==
  ev.kind = "blend" =>
    /\ ev.index \in Fwd(ev.task).comp
    /\ ev.wpre = SuffixW(ev.task, ev.index)
    /\ ev.alpha_grad = RefAlphaGrad(ev.task, ev.index)
    /\ ev.wpost = SuffixW(ev.task, ev.index - 1)

\* C9: every task arrives at the barrier ceil(tile_point_count / tile_area)
\* times, whatever its last_valid and its skips; a tile with an empty range
\* reaches no barrier and adds no gradient; until every task has finished
\* some task can step, and every step advances, so that under fair
\* scheduling no task waits forever and every task finishes.
C9_BarriersAndTermination ==
  /\ [](\A t \in Tasks : pc[t] \in {"store", "done"} =>
          syncs[t] = CeilDiv(tile_point_count, TileArea))
  /\ [](tile_point_count = 0 =>
          /\ \A t \in Tasks : syncs[t] = 0
          /\ \A p \in PointIds : grad_points[p] = P0 /\ grad_point_features[p] = V0)
  /\ [](AllDone \/ CanStep)
  /\ [][Progress(TileArea)' > Progress(TileArea)]_vars

\* all tasks finished a tile of two pages whose pixels had different
\* last_valid and skipped primitives
C9_Witness ==
  /\ AllDone
  /\ tile_point_count > TileArea
  /\ \E t, u \in Tasks : Fwd(t).last # Fwd(u).last
  /\ \A t \in Tasks : syncs[t] = 2

\* C10: after the kernel has completed, image_feature, image_alpha and
\* image_last_valid hold for every pixel the values they held at the launch,
\* those the forward pass saved.
C10_ForwardStateUnchanged ==
  AllDone =>
    \A t \in Tasks :
      /\ image_feature[t] = Fwd(t).C
      /\ image_alpha[t] = RSub(R1, Fwd(t).T)
      /\ image_last_valid[t] = Fwd(t).last

\* C7: append and index give a ParameterClass whose exp_avg and exp_avg_sq
\* have one row per row of the parameter tensor, the rows kept carrying
\* their old state and the rows appended carrying zero state.
C7_StateFollowsParameters ==
  [][(presult' # presult /\ presult'.op \in {"append", "index"}) =>
       /\ presult'.outcome = "ok"
       /\ Len(pstate'.exp_avg) = Len(pstate'.rows)
       /\ Len(pstate'.exp_avg_sq) = Len(pstate'.rows)
       /\ \A i \in 1..Len(pstate'.rows) :
            IF \E j \in 1..Len(pstate.rows) : pstate.rows[j] = pstate'.rows[i]
            THEN \A j \in 1..Len(pstate.rows) :
                   pstate.rows[j] = pstate'.rows[i] =>
                     /\ pstate'.exp_avg[i] = pstate.exp_avg[j]
                     /\ pstate'.exp_avg_sq[i] = pstate.exp_avg_sq[j]
            ELSE pstate'.exp_avg[i] = 0 /\ pstate'.exp_avg_sq[i] = 0
       /\ presult'.op = "append" =>
            Len(pstate'.rows) = Len(pstate.rows) + presult'.arg[1]
       /\ presult'.op = "index" => pstate'.rows = presult'.arg]_vars

=============================================================================
